---- MODULE Spec2Model ----
(***************************************************************************)
(* Cursor pagination over an aggregation pipeline (src/src/pagination.js). *)
(*                                                                         *)
(* The store is a collection of documents {_id, score, name}; a pipeline   *)
(* is a sequence of stages which Aggregate executes.  The Pagination class *)
(* is modelled by an engine record e = [this, tasks, queries, runs]:       *)
(*   this    the instance's fields (promises, aggregationPipeline, ...),   *)
(*   tasks   the position and locals of each memoized `run` closure,       *)
(*   queries how many Model.aggregate calls each closure has issued,       *)
(*   runs    how many times each closure has been started.                 *)
(* Every synchronous segment of the code (from a call or the resumption of *)
(* an await up to the next await) is one operator on e, and one action.    *)
(***************************************************************************)
EXTENDS Integers, Sequences, FiniteSets, TLC

VARIABLES
  collection,               \* the documents of the store, in its natural order
  failing,                  \* the closures whose Model.aggregate call is rejected
  baseAggregationPipeline,  \* the array the caller passes to the constructor
  args,                     \* the other constructor arguments
  phase,                    \* "new" before the constructor has run, then "live"
  this,                     \* the instance's fields
  tasks,                    \* position and locals of each run closure
  queries,                  \* Model.aggregate calls issued, per closure
  runs,                     \* starts of each run closure
  returned,                 \* per public operation, the promises handed to callers
  observed,                 \* per public operation, the outcomes callers have seen
  pages,                    \* the pages a caller has fetched by following end cursors
  twin                      \* a second instance built from the same caller's array

vars == <<collection, failing, baseAggregationPipeline, args, phase, this, tasks,
          queries, runs, returned, observed, pages, twin>>

(***************************************************************************)
(* Bounds of the model.                                                    *)
(***************************************************************************)
MaxId == 3
MaxScore == 2
MaxPages == 4

(***************************************************************************)
(* Program constants and JavaScript values.                                *)
(***************************************************************************)
\* `this.pagination.first || 25`
DefaultPerPage == 25
\* undefined / null: an absent pagination.after or pagination.first, an
\* absent sort order, a null end cursor, an unset this.perPage.
Nil == 0
\* Boolean(x) of a number or of a string.
Truthy(x) == x # Nil
TruthyStr(s) == s # ""

Ids == 1..MaxId
Scores == 1..MaxScore
Names == {"Ann", "bob"}
Doc(i, s, n) == [_id |-> i, score |-> s, name |-> n]

(***************************************************************************)
(* Sequence helpers.                                                       *)
(***************************************************************************)
Last(s) == s[Len(s)]
Take(s, n) == SubSeq(s, 1, IF n < Len(s) THEN n ELSE Len(s))
IdsOf(docs) == [i \in 1..Len(docs) |-> docs[i]._id]

(***************************************************************************)
(* The store: Model.aggregate(pipeline).                                   *)
(***************************************************************************)
\* comparison operators of a $match clause
Compare(op, a, b) ==
  CASE op = "$gt" -> a > b
    [] op = "$lt" -> a < b
    [] op = "$eq" -> a = b

\* one clause {field: {op: value}} of a $match
Satisfies(doc, clause) == Compare(clause.cmp, doc[clause.field], clause.value)

\* $sort: {field: order}; documents with equal keys keep their order
RECURSIVE InsertSorted(_, _, _, _)
InsertSorted(doc, sorted, field, order) ==
  IF sorted = <<>> THEN <<doc>>
  ELSE IF (order = 1 /\ doc[field] < Head(sorted)[field])
          \/ (order = -1 /\ doc[field] > Head(sorted)[field])
       THEN <<doc>> \o sorted
       ELSE <<Head(sorted)>> \o InsertSorted(doc, Tail(sorted), field, order)

RECURSIVE SortDocs(_, _, _)
SortDocs(docs, field, order) ==
  IF docs = <<>> THEN <<>>
  ELSE InsertSorted(Last(docs), SortDocs(SubSeq(docs, 1, Len(docs) - 1), field, order),
                    field, order)

\* one stage applied to the documents flowing through the pipeline
ApplyStage(stage, docs) ==
  CASE stage.op = "$project" -> docs
    [] stage.op = "$matchIn" ->
         SelectSeq(docs, LAMBDA d : d[stage.field] \in stage.value)
    [] stage.op = "$matchEq" ->
         SelectSeq(docs, LAMBDA d : d[stage.field] = stage.value)
    [] stage.op = "$matchId" ->
         SelectSeq(docs, LAMBDA d : d._id = stage.id)
    [] stage.op = "$matchOr" ->
         SelectSeq(docs, LAMBDA d : \E k \in 1..Len(stage.ors) : Satisfies(d, stage.ors[k]))
    [] stage.op = "$sort" -> SortDocs(docs, stage.field, stage.order)
    [] stage.op = "$limit" -> Take(docs, stage.n)
    [] stage.op = "$count" ->
         IF docs = <<>> THEN <<>> ELSE <<[count |-> Len(docs)]>>

RECURSIVE Aggregate(_, _)
Aggregate(pipeline, docs) ==
  IF pipeline = <<>> THEN docs
  ELSE Aggregate(Tail(pipeline), ApplyStage(Head(pipeline), docs))

(***************************************************************************)
(* filterResults: the client-side search filter.                           *)
(***************************************************************************)
\* String.prototype.toLowerCase over the strings of the model
Lower(str) ==
  CASE str = "Ann" -> "ann"
    [] str = "bob" -> "bob"
    [] OTHER -> str

\* new RegExp(search, 'i').exec(value) for the value of one field: the
\* patterns of the model are words, which no stringified number contains
RegexExec(search, doc, field) ==
  IF field = "name" THEN Lower(doc.name) = Lower(search) ELSE FALSE

\* for (let value of Object.values(result)) if (regex.exec(value)) ...
MatchesSearch(doc, search) ==
  \E field \in {"_id", "score", "name"} : RegexExec(search, doc, field)

\* results.filter(callback) with the closure variable afterCursorModelCount:
\* hasPagination is Boolean(pagination), pagination the object when given
RECURSIVE FilterFrom(_, _, _, _, _)
FilterFrom(results, search, hasPagination, pagination, afterCursorModelCount) ==
  IF results = <<>> THEN <<>>
  ELSE
    LET result == Head(results)
        rest == Tail(results)
    IN  IF hasPagination /\ Truthy(pagination.first)
           /\ afterCursorModelCount = pagination.first
        THEN FilterFrom(rest, search, hasPagination, pagination, afterCursorModelCount)
        ELSE IF hasPagination /\ Truthy(pagination.after) /\ afterCursorModelCount = -1
        THEN FilterFrom(rest, search, hasPagination, pagination,
                        IF result._id = pagination.after
                        THEN afterCursorModelCount + 1 ELSE afterCursorModelCount)
        ELSE IF MatchesSearch(result, search)
        THEN <<result>> \o
             FilterFrom(rest, search, hasPagination, pagination,
                        IF hasPagination
                        THEN afterCursorModelCount + 1 ELSE afterCursorModelCount)
        ELSE FilterFrom(rest, search, hasPagination, pagination, afterCursorModelCount)

\* the filter callback not excluding the record whose id is pagination.after
RECURSIVE FilterFromKeepBoundary(_, _, _, _, _)
FilterFromKeepBoundary(results, search, hasPagination, pagination, afterCursorModelCount) ==
  IF results = <<>> THEN <<>>
  ELSE
    LET result == Head(results)
        rest == Tail(results)
    IN  IF hasPagination /\ Truthy(pagination.first)
           /\ afterCursorModelCount = pagination.first
        THEN FilterFromKeepBoundary(rest, search, hasPagination, pagination,
                                    afterCursorModelCount)
        ELSE IF hasPagination /\ Truthy(pagination.after) /\ afterCursorModelCount = -1
                /\ result._id # pagination.after
        THEN FilterFromKeepBoundary(rest, search, hasPagination, pagination,
                                    afterCursorModelCount)
        ELSE IF MatchesSearch(result, search)
        THEN <<result>> \o
             FilterFromKeepBoundary(rest, search, hasPagination, pagination,
                                    IF afterCursorModelCount = -1 THEN 1
                                    ELSE IF hasPagination THEN afterCursorModelCount + 1
                                    ELSE afterCursorModelCount)
        ELSE FilterFromKeepBoundary(rest, search, hasPagination, pagination,
                                    IF afterCursorModelCount = -1 THEN 0
                                    ELSE afterCursorModelCount)

filterResultsKeepBoundary(results, search, hasPagination, pagination) ==
  FilterFromKeepBoundary(results, search, hasPagination, pagination,
                         IF hasPagination /\ Truthy(pagination.after) THEN -1 ELSE 0)

\* the filter callback counting every record past the boundary, matching or not
RECURSIVE FilterFromCountAll(_, _, _, _, _)
FilterFromCountAll(results, search, hasPagination, pagination, afterCursorModelCount) ==
  IF results = <<>> THEN <<>>
  ELSE
    LET result == Head(results)
        rest == Tail(results)
    IN  IF hasPagination /\ Truthy(pagination.first)
           /\ afterCursorModelCount = pagination.first
        THEN FilterFromCountAll(rest, search, hasPagination, pagination,
                                afterCursorModelCount)
        ELSE IF hasPagination /\ Truthy(pagination.after) /\ afterCursorModelCount = -1
        THEN FilterFromCountAll(rest, search, hasPagination, pagination,
                                IF result._id = pagination.after
                                THEN afterCursorModelCount + 1 ELSE afterCursorModelCount)
        ELSE (IF MatchesSearch(result, search) THEN <<result>> ELSE <<>>) \o
             FilterFromCountAll(rest, search, hasPagination, pagination,
                                IF hasPagination
                                THEN afterCursorModelCount + 1 ELSE afterCursorModelCount)

filterResultsCountAll(results, search, hasPagination, pagination) ==
  FilterFromCountAll(results, search, hasPagination, pagination,
                     IF hasPagination /\ Truthy(pagination.after) THEN -1 ELSE 0)

\* filterResults without the skip up to pagination.after
filterResultsNoSkip(results, search, hasPagination, pagination) ==
  FilterFrom(results, search, hasPagination, pagination, 0)

filterResults(results, search, hasPagination, pagination) ==
  FilterFrom(results, search, hasPagination, pagination,
             IF hasPagination /\ Truthy(pagination.after) THEN -1 ELSE 0)

\* the pagination argument left out: filterResults(results, this.search)
NoPagination == [first |-> Nil, after |-> Nil]

(***************************************************************************)
(* The Pagination instance.                                                *)
(***************************************************************************)
TaskNames == {"count", "model", "edge", "cursor", "nextPage"}

Unset(v) == [state |-> "unset", value |-> v, reason |-> ""]
NoDoc == Doc(Nil, Nil, "")
\* this.promises = {}
NoPromises ==
  [count |-> Unset(0), model |-> Unset(NoDoc), edge |-> Unset(<<>>),
   cursor |-> Unset(Nil), nextPage |-> Unset(FALSE)]

Idle == [pc |-> "idle", pipeline |-> <<>>, after |-> Nil]
Settled(p) == p.state \in {"fulfilled", "rejected"}

\* an instance that has not been constructed
NoInstance ==
  [promises |-> NoPromises, aggregationPipeline |-> <<>>, search |-> "",
   pagination |-> NoPagination, sort |-> [field |-> "", order |-> Nil],
   perPage |-> Nil]

\* no second instance
NoTwin ==
  [phase |-> "new", this |-> NoInstance,
   args |-> [pagination |-> NoPagination, sort |-> [field |-> "", order |-> Nil],
             filters |-> <<>>, search |-> ""]]

NoEngine ==
  [this |-> NoInstance,
   tasks |-> [t \in TaskNames |-> Idle],
   queries |-> [t \in TaskNames |-> 0],
   runs |-> [t \in TaskNames |-> 0]]

\* the constructor without .slice(): the stages are pushed into the caller's array
ConstructorNoSlice(basePipeline, params) ==
  LET sorted ==
        basePipeline
        \o [k \in 1..Len(params.filters) |->
              [op |-> "$matchIn", field |-> params.filters[k].field,
               value |-> params.filters[k].value]]
        \o (IF TruthyStr(params.sort.field) /\ Truthy(params.sort.order)
            THEN <<[op |-> "$sort", field |-> params.sort.field,
                    order |-> params.sort.order]>>
            ELSE <<>>)
  IN  [this |-> [promises |-> NoPromises, aggregationPipeline |-> sorted,
                 search |-> params.search, pagination |-> params.pagination,
                 sort |-> params.sort, perPage |-> Nil],
       baseAggregationPipeline |-> sorted]

\* constructor: the instance, and the caller's array as construction leaves it
Constructor(basePipeline, params) ==
  LET sliced == basePipeline
      filtered ==
        sliced \o [k \in 1..Len(params.filters) |->
                     [op |-> "$matchIn", field |-> params.filters[k].field,
                      value |-> params.filters[k].value]]
      sorted ==
        IF TruthyStr(params.sort.field) /\ Truthy(params.sort.order)
        THEN filtered \o <<[op |-> "$sort", field |-> params.sort.field,
                            order |-> params.sort.order]>>
        ELSE filtered
  IN  [this |-> [promises |-> NoPromises, aggregationPipeline |-> sorted,
                 search |-> params.search, pagination |-> params.pagination,
                 sort |-> params.sort, perPage |-> Nil],
       baseAggregationPipeline |-> basePipeline]

\* a slot settles; the closure that owned it is finished
Fulfil(e, t, v) ==
  [e EXCEPT !.this.promises[t] = [state |-> "fulfilled", value |-> v, reason |-> ""],
            !.tasks[t] = [Idle EXCEPT !.pc = "done"]]
Reject(e, t, why) ==
  [e EXCEPT !.this.promises[t].state = "rejected",
            !.this.promises[t].reason = why,
            !.tasks[t] = [Idle EXCEPT !.pc = "done"]]
\* run() is started: the slot holds its pending promise
Started(e, t) ==
  [e EXCEPT !.this.promises[t].state = "pending", !.runs[t] = @ + 1]
\* await this.Model.aggregate(pipeline)
Issue(e, t, pipeline) ==
  [e EXCEPT !.tasks[t] = [pc |-> "aggregate", pipeline |-> pipeline, after |-> Nil],
            !.queries[t] = @ + 1]

\* getTotalCount(): the call, up to the await of the store
getTotalCount(e) ==
  IF e.this.promises.count.state # "unset" THEN e
  ELSE
    LET aggregationPipelineNoPagination == e.this.aggregationPipeline
        counting ==
          SelectSeq(aggregationPipelineNoPagination \o <<[op |-> "$count"]>>,
                    LAMBDA a : a.op # "$project")
    IN  IF TruthyStr(e.this.search)
        THEN Issue(Started(e, "count"), "count", aggregationPipelineNoPagination)
        ELSE Issue(Started(e, "count"), "count", counting)

\* getTotalCount() returning countResults.length for the count
getTotalCountReplyLength(e, stored, broken) ==
  IF "count" \in broken THEN Reject(e, "count", "StoreError")
  ELSE
    LET results == Aggregate(e.tasks.count.pipeline, stored)
    IN  IF TruthyStr(e.this.search)
        THEN Fulfil(e, "count",
                    Len(filterResults(results, e.this.search, FALSE, NoPagination)))
        ELSE Fulfil(e, "count", Len(results))

\* getTotalCount(): the store has answered
getTotalCountReply(e, stored, broken) ==
  IF "count" \in broken THEN Reject(e, "count", "StoreError")
  ELSE
    LET results == Aggregate(e.tasks.count.pipeline, stored)
    IN  IF TruthyStr(e.this.search)
        THEN Fulfil(e, "count",
                    Len(filterResults(results, e.this.search, FALSE, NoPagination)))
        ELSE Fulfil(e, "count", IF Len(results) > 0 THEN results[1].count ELSE 0)

\* findCursorModel(id): the call, up to the await of the store
findCursorModel(e, id) ==
  IF e.this.promises.model.state # "unset" THEN e
  ELSE Issue(Started(e, "model"), "model",
             <<[op |-> "$matchId", id |-> id]>> \o e.this.aggregationPipeline)

\* findCursorModel(id) returning results[0] without the not-found check
findCursorModelReplyNoThrow(e, stored, broken) ==
  IF "model" \in broken THEN Reject(e, "model", "StoreError")
  ELSE
    LET results == Aggregate(e.tasks.model.pipeline, stored)
    IN  Fulfil(e, "model", IF Len(results) = 0 THEN NoDoc ELSE results[1])

\* findCursorModel(id): the store has answered
findCursorModelReply(e, stored, broken) ==
  IF "model" \in broken THEN Reject(e, "model", "StoreError")
  ELSE
    LET results == Aggregate(e.tasks.model.pipeline, stored)
    IN  IF Len(results) = 0 THEN Reject(e, "model", "CursorNotFound")
        ELSE Fulfil(e, "model", results[1])

\* aggregationAddPagination limiting the page to one record more than perPage
PaginationStagesOneMore(after, cursorModel, sort, perPage) ==
  LET orderDirection == IF sort.order = 1 THEN "$gt" ELSE "$lt"
      ors ==
        (IF TruthyStr(sort.field) /\ Truthy(sort.order)
         THEN <<[field |-> sort.field, cmp |-> orderDirection,
                 value |-> cursorModel[sort.field]]>>
         ELSE <<>>)
        \o <<[field |-> "_id", cmp |-> "$gt", value |-> after]>>
  IN  (IF Truthy(after) THEN <<[op |-> "$matchOr", ors |-> ors]>> ELSE <<>>)
      \o <<[op |-> "$limit", n |-> perPage + 1]>>

\* the stages aggregationAddPagination appends to its copy of the pipeline
PaginationStages(after, cursorModel, sort, perPage) ==
  LET orderDirection == IF sort.order = 1 THEN "$gt" ELSE "$lt"
      ors ==
        (IF TruthyStr(sort.field) /\ Truthy(sort.order)
         THEN <<[field |-> sort.field, cmp |-> orderDirection,
                 value |-> cursorModel[sort.field]]>>
         ELSE <<>>)
        \o <<[field |-> "_id", cmp |-> "$gt", value |-> after]>>
  IN  (IF Truthy(after) THEN <<[op |-> "$matchOr", ors |-> ors]>> ELSE <<>>)
      \o <<[op |-> "$limit", n |-> perPage]>>

\* aggregationAddPagination, from the cursor model on: perPage is set and the
\* promise of the extended copy is resolved; closure t awaits it
addPaginationFinish(e, t, after, cursorModel) ==
  LET perPage == IF Truthy(e.this.pagination.first)
                 THEN e.this.pagination.first ELSE DefaultPerPage
      aggregationPipelineWithPagination ==
        e.this.aggregationPipeline \o PaginationStages(after, cursorModel, e.this.sort, perPage)
  IN  [e EXCEPT !.this.perPage = perPage,
                !.tasks[t] = [pc |-> "awaitAdd",
                              pipeline |-> aggregationPipelineWithPagination,
                              after |-> after]]

\* aggregationAddPagination(aggregationPipeline, after), called by closure t,
\* up to its first await
aggregationAddPagination(e, t, after) ==
  IF Truthy(after)
  THEN [findCursorModel(e, after) EXCEPT
          !.tasks[t] = [pc |-> "awaitModel", pipeline |-> <<>>, after |-> after]]
  ELSE addPaginationFinish(e, t, after, NoDoc)

\* closure t resumes in aggregationAddPagination: the cursor model is settled
awaitModelResume(e, t) ==
  IF e.this.promises.model.state = "rejected"
  THEN Reject(e, t, e.this.promises.model.reason)
  ELSE addPaginationFinish(e, t, e.tasks[t].after, e.this.promises.model.value)

\* closure t resumes with the extended pipeline and queries the store
awaitAddResume(e, t) == Issue(e, t, e.tasks[t].pipeline)

\* getEdges() without the `if (!this.promises.edge)` guard
getEdgesNoMemo(e) ==
  IF ~TruthyStr(e.this.search)
  THEN aggregationAddPagination(Started(e, "edge"), "edge", e.this.pagination.after)
  ELSE Issue(Started(e, "edge"), "edge", e.this.aggregationPipeline)

\* getEdges(): the call, up to the first await
getEdges(e) ==
  IF e.this.promises.edge.state # "unset" THEN e
  ELSE IF ~TruthyStr(e.this.search)
       THEN aggregationAddPagination(Started(e, "edge"), "edge", e.this.pagination.after)
       ELSE Issue(Started(e, "edge"), "edge", e.this.aggregationPipeline)

\* docs.map(doc => ({ node: doc, cursor: doc._id }))
Edges(docs) == [i \in 1..Len(docs) |-> [node |-> docs[i], cursor |-> docs[i]._id]]

\* getEdges(): the store has answered
getEdgesReply(e, stored, broken) ==
  IF "edge" \in broken THEN Reject(e, "edge", "StoreError")
  ELSE
    LET docs == Aggregate(e.tasks.edge.pipeline, stored)
    IN  IF ~TruthyStr(e.this.search)
        THEN Fulfil(e, "edge", Edges(docs))
        ELSE Fulfil(e, "edge",
                    Edges(filterResults(docs, e.this.search, TRUE, e.this.pagination)))

\* getEndCursor() reading the edges only if they have already arrived
getEndCursorNoAwait(e) ==
  IF e.this.promises.cursor.state # "unset" THEN e
  ELSE LET e1 == getEdges(Started(e, "cursor"))
           edge == e1.this.promises.edge
       IN  IF edge.state = "fulfilled" /\ Len(edge.value) > 0
           THEN Fulfil(e1, "cursor", Last(edge.value).cursor)
           ELSE Fulfil(e1, "cursor", Nil)

\* getEndCursor(): the call, up to the await of getEdges()
getEndCursor(e) ==
  IF e.this.promises.cursor.state # "unset" THEN e
  ELSE [getEdges(Started(e, "cursor")) EXCEPT !.tasks.cursor.pc = "awaitEdges"]

\* getEndCursor() catching a failure of getEdges() and returning null
getEndCursorResumeSwallow(e) ==
  LET edge == e.this.promises.edge
  IN  IF edge.state = "rejected" \/ Len(edge.value) = 0 THEN Fulfil(e, "cursor", Nil)
      ELSE Fulfil(e, "cursor", Last(edge.value).cursor)

\* getEndCursor() returning the cursor of the first edge of the page
getEndCursorResumeFirst(e) ==
  LET edge == e.this.promises.edge
  IN  IF edge.state = "rejected" THEN Reject(e, "cursor", edge.reason)
      ELSE IF Len(edge.value) = 0 THEN Fulfil(e, "cursor", Nil)
      ELSE Fulfil(e, "cursor", Head(edge.value).cursor)

\* getEndCursor(): the edges are settled
getEndCursorResume(e) ==
  LET edge == e.this.promises.edge
  IN  IF edge.state = "rejected" THEN Reject(e, "cursor", edge.reason)
      ELSE IF Len(edge.value) = 0 THEN Fulfil(e, "cursor", Nil)
      ELSE Fulfil(e, "cursor", Last(edge.value).cursor)

\* hasNextPage(): the call, up to the await of getEndCursor()
hasNextPage(e) ==
  IF e.this.promises.nextPage.state # "unset" THEN e
  ELSE [getEndCursor(Started(e, "nextPage")) EXCEPT !.tasks.nextPage.pc = "awaitCursor"]

\* hasNextPage(): the end cursor is settled; `._id` of null throws, `._id`
\* of an ObjectId is the ObjectId itself
hasNextPageResume(e) ==
  LET cursor == e.this.promises.cursor
  IN  IF cursor.state = "rejected" THEN Reject(e, "nextPage", cursor.reason)
      ELSE IF cursor.value = Nil THEN Reject(e, "nextPage", "TypeError")
      ELSE aggregationAddPagination(e, "nextPage", cursor.value)

\* hasNextPage(): the store has answered the probe
hasNextPageReply(e, stored, broken) ==
  IF "nextPage" \in broken THEN Reject(e, "nextPage", "StoreError")
  ELSE Fulfil(e, "nextPage", Len(Aggregate(e.tasks.nextPage.pipeline, stored)) > 0)

(***************************************************************************)
(* The continuations: what the event loop may run next.                    *)
(***************************************************************************)
StepNames ==
  {"CountReply", "ModelReply", "EdgeModelResume", "EdgeAddResume", "EdgeReply",
   "CursorResume", "NextPageCursorResume", "NextPageModelResume",
   "NextPageAddResume", "NextPageReply"}

\* continuation n can run: its closure is suspended on something settled
StepEnabled(e, n) ==
  CASE n = "CountReply" -> e.tasks.count.pc = "aggregate"
    [] n = "ModelReply" -> e.tasks.model.pc = "aggregate"
    [] n = "EdgeModelResume" ->
         e.tasks.edge.pc = "awaitModel" /\ Settled(e.this.promises.model)
    [] n = "EdgeAddResume" -> e.tasks.edge.pc = "awaitAdd"
    [] n = "EdgeReply" -> e.tasks.edge.pc = "aggregate"
    [] n = "CursorResume" ->
         e.tasks.cursor.pc = "awaitEdges" /\ Settled(e.this.promises.edge)
    [] n = "NextPageCursorResume" ->
         e.tasks.nextPage.pc = "awaitCursor" /\ Settled(e.this.promises.cursor)
    [] n = "NextPageModelResume" ->
         e.tasks.nextPage.pc = "awaitModel" /\ Settled(e.this.promises.model)
    [] n = "NextPageAddResume" -> e.tasks.nextPage.pc = "awaitAdd"
    [] n = "NextPageReply" -> e.tasks.nextPage.pc = "aggregate"

StepApply(e, n, stored, broken) ==
  CASE n = "CountReply" -> getTotalCountReply(e, stored, broken)
    [] n = "ModelReply" -> findCursorModelReply(e, stored, broken)
    [] n = "EdgeModelResume" -> awaitModelResume(e, "edge")
    [] n = "EdgeAddResume" -> awaitAddResume(e, "edge")
    [] n = "EdgeReply" -> getEdgesReply(e, stored, broken)
    [] n = "CursorResume" -> getEndCursorResume(e)
    [] n = "NextPageCursorResume" -> hasNextPageResume(e)
    [] n = "NextPageModelResume" -> awaitModelResume(e, "nextPage")
    [] n = "NextPageAddResume" -> awaitAddResume(e, "nextPage")
    [] n = "NextPageReply" -> hasNextPageReply(e, stored, broken)

\* the event loop runs until no continuation is left
RECURSIVE Drain(_, _, _)
Drain(e, stored, broken) ==
  LET ready == {n \in StepNames : StepEnabled(e, n)}
  IN  IF ready = {} THEN e
      ELSE Drain(StepApply(e, CHOOSE n \in ready : TRUE, stored, broken), stored, broken)

\* a caller invokes the four operations and awaits them all
AwaitAll(e, stored, broken) ==
  Drain(hasNextPage(getEndCursor(getEdges(getTotalCount(e)))), stored, broken)

\* a constructed instance on which nothing has been called
NewEngine(basePipeline, params) ==
  [NoEngine EXCEPT !.this = Constructor(basePipeline, params).this]

(***************************************************************************)
(* One instance under concurrent callers.                                  *)
(***************************************************************************)
Operations == {"count", "edge", "cursor", "nextPage"}

Engine == [this |-> this, tasks |-> tasks, queries |-> queries, runs |-> runs]
Commit(e) ==
  /\ this' = e.this
  /\ tasks' = e.tasks
  /\ queries' = e.queries
  /\ runs' = e.runs

Outcome(p) == [state |-> p.state, value |-> p.value, reason |-> p.reason]

\* a caller receives the promise stored in the slot, and its outcome if settled
Hand(op) ==
  /\ returned' = [returned EXCEPT ![op] = @ \cup {runs'[op]}]
  /\ observed' = [observed EXCEPT ![op] =
                    IF Settled(this'.promises[op])
                    THEN @ \cup {Outcome(this'.promises[op])} ELSE @]

Environment == <<collection, failing, args, phase, pages, twin>>

\* the store of the concurrent runs: ids 1..n in order, scores and names mixed
Stored(n) == [i \in 1..n |-> Doc(i, (i % MaxScore) + 1, IF i % 2 = 1 THEN "Ann" ELSE "bob")]

Sorts == {[field |-> "", order |-> Nil], [field |-> "score", order |-> 1],
          [field |-> "score", order |-> -1]}
Searches == {"", "ann"}
FilterLists == {<<>>, <<[field |-> "name", value |-> {"Ann"}]>>}
BasePipelines == {<<>>, <<[op |-> "$project"]>>}

Args(pagination, sort, filters, search) ==
  [pagination |-> pagination, sort |-> sort, filters |-> filters, search |-> search]

Fresh ==
  /\ phase = "new"
  /\ this = NoEngine.this
  /\ tasks = NoEngine.tasks
  /\ queries = NoEngine.queries
  /\ runs = NoEngine.runs
  /\ returned = [op \in Operations |-> {}]
  /\ observed = [op \in Operations |-> {}]
  /\ pages = <<>>
  /\ twin = NoTwin

Init ==
  /\ collection \in {Stored(0), Stored(MaxId)}
  /\ failing \in {{}} \cup {{t} : t \in TaskNames \ {"cursor"}}
  /\ baseAggregationPipeline \in BasePipelines
  /\ \E first \in 0..(MaxId - 1), after \in {Nil, 1, MaxId + 1},
        sort \in Sorts, filters \in FilterLists, search \in Searches :
       args = Args([first |-> first, after |-> after], sort, filters, search)
  /\ Fresh

Construct ==
  /\ phase = "new"
  /\ LET c == Constructor(baseAggregationPipeline, args)
     IN  /\ this' = c.this
         /\ baseAggregationPipeline' = c.baseAggregationPipeline
  /\ phase' = "live"
  /\ UNCHANGED <<collection, failing, args, tasks, queries, runs, returned, observed, pages,
                 twin>>

CallGetTotalCount ==
  /\ phase = "live"
  /\ Commit(getTotalCount(Engine))
  /\ Hand("count")
  /\ UNCHANGED <<Environment, baseAggregationPipeline>>

CallGetEdges ==
  /\ phase = "live"
  /\ Commit(getEdges(Engine))
  /\ Hand("edge")
  /\ UNCHANGED <<Environment, baseAggregationPipeline>>

CallGetEndCursor ==
  /\ phase = "live"
  /\ Commit(getEndCursor(Engine))
  /\ Hand("cursor")
  /\ UNCHANGED <<Environment, baseAggregationPipeline>>

CallHasNextPage ==
  /\ phase = "live"
  /\ Commit(hasNextPage(Engine))
  /\ Hand("nextPage")
  /\ UNCHANGED <<Environment, baseAggregationPipeline>>

\* a continuation runs; callers already holding the promise see its outcome
Continue(e) ==
  /\ Commit(e)
  /\ observed' = [op \in Operations |->
                    IF returned[op] # {} /\ Settled(e.this.promises[op])
                    THEN observed[op] \cup {Outcome(e.this.promises[op])}
                    ELSE observed[op]]
  /\ UNCHANGED <<Environment, baseAggregationPipeline, returned>>

CountReply ==
  /\ StepEnabled(Engine, "CountReply")
  /\ Continue(StepApply(Engine, "CountReply", collection, failing))

ModelReply ==
  /\ StepEnabled(Engine, "ModelReply")
  /\ Continue(StepApply(Engine, "ModelReply", collection, failing))

EdgeModelResume ==
  /\ StepEnabled(Engine, "EdgeModelResume")
  /\ Continue(StepApply(Engine, "EdgeModelResume", collection, failing))

EdgeAddResume ==
  /\ StepEnabled(Engine, "EdgeAddResume")
  /\ Continue(StepApply(Engine, "EdgeAddResume", collection, failing))

EdgeReply ==
  /\ StepEnabled(Engine, "EdgeReply")
  /\ Continue(StepApply(Engine, "EdgeReply", collection, failing))

CursorResume ==
  /\ StepEnabled(Engine, "CursorResume")
  /\ Continue(StepApply(Engine, "CursorResume", collection, failing))

NextPageCursorResume ==
  /\ StepEnabled(Engine, "NextPageCursorResume")
  /\ Continue(StepApply(Engine, "NextPageCursorResume", collection, failing))

NextPageModelResume ==
  /\ StepEnabled(Engine, "NextPageModelResume")
  /\ Continue(StepApply(Engine, "NextPageModelResume", collection, failing))

NextPageAddResume ==
  /\ StepEnabled(Engine, "NextPageAddResume")
  /\ Continue(StepApply(Engine, "NextPageAddResume", collection, failing))

NextPageReply ==
  /\ StepEnabled(Engine, "NextPageReply")
  /\ Continue(StepApply(Engine, "NextPageReply", collection, failing))

Next ==
  \/ Construct
  \/ CallGetTotalCount
  \/ CallGetEdges
  \/ CallGetEndCursor
  \/ CallHasNextPage
  \/ CountReply
  \/ ModelReply
  \/ EdgeModelResume
  \/ EdgeAddResume
  \/ EdgeReply
  \/ CursorResume
  \/ NextPageCursorResume
  \/ NextPageModelResume
  \/ NextPageAddResume
  \/ NextPageReply

Spec == Init /\ [][Next]_vars

(***************************************************************************)
(* A caller paging through a collection: one instance per page, each built *)
(* with after = the end cursor of the page before.                         *)
(***************************************************************************)
Reverse(s) == [i \in 1..Len(s) |-> s[Len(s) + 1 - i]]

\* a document per id: <<score, name>>, or Absent
Absent == <<Nil, "">>
RECURSIVE DocsFrom(_, _)
DocsFrom(f, i) ==
  IF i > MaxId THEN <<>>
  ELSE (IF f[i] = Absent THEN <<>> ELSE <<Doc(i, f[i][1], f[i][2])>>) \o DocsFrom(f, i + 1)

\* the collections over Ids, in ascending or in descending order of _id
Collections(scores, names) ==
  LET present == [Ids -> {Absent} \cup (scores \X names)]
  IN  {DocsFrom(f, 1) : f \in present} \cup {Reverse(DocsFrom(f, 1)) : f \in present}

\* more documents than the default page holds, all matching "ann"
BigCollection == [i \in 1..(DefaultPerPage + 1) |-> Doc(i, 1, "Ann")]

Paginations == [first : 0..MaxId, after : 0..MaxId]

\* native mode over sort keys that need not follow the ids; search mode over
\* names, with any pagination.after; or the big collection
InitPages ==
  /\ failing = {}
  /\ baseAggregationPipeline = <<>>
  /\ \/ /\ collection \in Collections(Scores, {"Ann"})
        /\ \E first \in 0..MaxId, sort \in Sorts :
             args = Args([first |-> first, after |-> Nil], sort, <<>>, "")
     \/ /\ collection \in Collections({1}, Names)
        /\ \E pagination \in Paginations, filters \in FilterLists :
             args = Args(pagination, [field |-> "", order |-> Nil], filters, "ann")
     \/ /\ collection = BigCollection
        /\ \E search \in Searches :
             args = Args(NoPagination, [field |-> "", order |-> Nil], <<>>, search)
  /\ Fresh

\* new Pagination(Model, {..., pagination: {first, after}}), then the four
\* operations awaited
FetchPage(after) ==
  LET params == [args EXCEPT !.pagination.after = after]
      built == Constructor(baseAggregationPipeline, params)
      e == AwaitAll(NewEngine(baseAggregationPipeline, params), collection, failing)
  IN  /\ Commit(e)
      /\ args' = params
      /\ phase' = "live"
      /\ baseAggregationPipeline' = built.baseAggregationPipeline
      /\ pages' = Append(pages, [after |-> after,
                                 count |-> Outcome(e.this.promises.count),
                                 edge |-> Outcome(e.this.promises.edge),
                                 cursor |-> Outcome(e.this.promises.cursor),
                                 nextPage |-> Outcome(e.this.promises.nextPage)])
      /\ UNCHANGED <<collection, failing, returned, observed, twin>>

FirstPage ==
  /\ pages = <<>>
  /\ FetchPage(args.pagination.after)

FollowingPage ==
  /\ pages # <<>>
  /\ Len(pages) < MaxPages
  /\ Last(pages).cursor.state = "fulfilled"
  /\ Last(pages).cursor.value # Nil
  /\ FetchPage(Last(pages).cursor.value)

NextPages == FirstPage \/ FollowingPage

SpecPages == InitPages /\ [][NextPages]_vars

(***************************************************************************)
(* The variant src/unnamed/part_000: the constructor keeps the caller's    *)
(* array, getEdges() always paginates natively, and hasNextPage() compares *)
(* the count of the pipeline with this.perPage.  Modelled: the constructor *)
(* and the operations getEdges() and hasNextPage() with what they call.    *)
(***************************************************************************)
\* constructor: this.aggregationPipeline is the caller's array itself, and
\* the stages are pushed into it
VariantConstructor(basePipeline, params) ==
  LET filtered ==
        basePipeline \o [k \in 1..Len(params.filters) |->
                           [op |-> "$matchEq", field |-> params.filters[k].field,
                            value |-> params.filters[k].value]]
      sorted ==
        IF TruthyStr(params.sort.field) /\ Truthy(params.sort.order)
        THEN filtered \o <<[op |-> "$sort", field |-> params.sort.field,
                            order |-> params.sort.order]>>
        ELSE filtered
  IN  [this |-> [promises |-> NoPromises, aggregationPipeline |-> sorted,
                 search |-> params.search, pagination |-> params.pagination,
                 sort |-> params.sort, perPage |-> Nil],
       baseAggregationPipeline |-> sorted]

\* findCursorModel(id): the call, up to the await of the store
VariantFindCursorModel(e, id) ==
  IF e.this.promises.model.state # "unset" THEN e
  ELSE Issue(Started(e, "model"), "model",
             e.this.aggregationPipeline \o <<[op |-> "$matchId", id |-> id]>>)

\* findCursorModel(id): the store has answered
VariantFindCursorModelReply(e, stored, broken) ==
  IF "model" \in broken THEN Reject(e, "model", "StoreError")
  ELSE
    LET results == Aggregate(e.tasks.model.pipeline, stored)
    IN  IF Len(results) = 0 THEN Reject(e, "model", "CursorNotFound")
        ELSE Fulfil(e, "model", results[1])

\* aggregationAddPagination, from the cursor model on: the boundary and the
\* limit go to the copy taken at the call, and this.perPage is set
VariantAddPaginationFinish(e, t, aggregationPipelineWithPagination, cursorModel) ==
  LET perPage == IF Truthy(e.this.pagination.first)
                 THEN e.this.pagination.first ELSE DefaultPerPage
  IN  [e EXCEPT !.this.perPage = perPage,
                !.tasks[t] =
                  [pc |-> "awaitAdd",
                   pipeline |-> aggregationPipelineWithPagination
                                \o PaginationStages(e.this.pagination.after, cursorModel,
                                                    e.this.sort, perPage),
                   after |-> e.this.pagination.after]]

\* aggregationAddPagination(aggregationPipeline, pagination), called by
\* closure t, up to its first await
VariantAggregationAddPagination(e, t) ==
  LET aggregationPipelineWithPagination == e.this.aggregationPipeline
  IN  IF Truthy(e.this.pagination.after)
      THEN [VariantFindCursorModel(e, e.this.pagination.after) EXCEPT
              !.tasks[t] = [pc |-> "awaitModel",
                            pipeline |-> aggregationPipelineWithPagination,
                            after |-> e.this.pagination.after]]
      ELSE VariantAddPaginationFinish(e, t, aggregationPipelineWithPagination, NoDoc)

\* closure t resumes in aggregationAddPagination: the cursor model is settled
VariantAwaitModelResume(e, t) ==
  IF e.this.promises.model.state = "rejected"
  THEN Reject(e, t, e.this.promises.model.reason)
  ELSE VariantAddPaginationFinish(e, t, e.tasks[t].pipeline, e.this.promises.model.value)

\* getEdges(): the call, up to the first await
VariantGetEdges(e) ==
  IF e.this.promises.edge.state # "unset" THEN e
  ELSE VariantAggregationAddPagination(Started(e, "edge"), "edge")

\* getEdges(): the store has answered; with a search pattern the closure
\* calls this.find, which the class does not define
VariantGetEdgesReply(e, stored, broken) ==
  IF "edge" \in broken THEN Reject(e, "edge", "StoreError")
  ELSE
    LET docs == Aggregate(e.tasks.edge.pipeline, stored)
    IN  IF TruthyStr(e.this.search) THEN Reject(e, "edge", "TypeError")
        ELSE Fulfil(e, "edge", Edges(docs))

\* hasNextPage(): the call, up to the await of the store
VariantHasNextPage(e) ==
  IF e.this.promises.nextPage.state # "unset" THEN e
  ELSE
    LET aggregationPipelineNoPerPage == e.this.aggregationPipeline \o <<[op |-> "$count"]>>
    IN  Issue(Started(e, "nextPage"), "nextPage", aggregationPipelineNoPerPage)

\* hasNextPage(): the store has answered; `count > undefined` is false
VariantHasNextPageReply(e, stored, broken) ==
  IF "nextPage" \in broken THEN Reject(e, "nextPage", "StoreError")
  ELSE
    LET countResults == Aggregate(e.tasks.nextPage.pipeline, stored)
        count == IF Len(countResults) > 0 THEN countResults[1].count ELSE 0
    IN  Fulfil(e, "nextPage", IF e.this.perPage = Nil THEN FALSE ELSE count > e.this.perPage)

VariantFilterLists == {<<>>, <<[field |-> "name", value |-> "Ann"]>>}

\* the arguments of the second instance: nothing of its own, or a filter and a sort
TwinArgs ==
  {Args(NoPagination, [field |-> "", order |-> Nil], <<>>, ""),
   Args(NoPagination, [field |-> "score", order |-> -1],
        <<[field |-> "name", value |-> "bob"]>>, "")}

VariantInit ==
  /\ collection \in {Stored(0), Stored(MaxId)}
  /\ failing \in {{}} \cup {{t} : t \in {"model", "edge", "nextPage"}}
  /\ baseAggregationPipeline \in BasePipelines
  /\ \E first \in 0..(MaxId - 1), after \in {Nil, 1, MaxId + 1},
        sort \in Sorts, filters \in VariantFilterLists, search \in Searches :
       args = Args([first |-> first, after |-> after], sort, filters, search)
  /\ phase = "new"
  /\ this = NoEngine.this
  /\ tasks = NoEngine.tasks
  /\ queries = NoEngine.queries
  /\ runs = NoEngine.runs
  /\ returned = [op \in Operations |-> {}]
  /\ observed = [op \in Operations |-> {}]
  /\ pages = <<>>
  /\ \E params \in TwinArgs : twin = [NoTwin EXCEPT !.args = params]

VariantConstruct ==
  /\ phase = "new"
  /\ LET c == VariantConstructor(baseAggregationPipeline, args)
     IN  /\ this' = c.this
         /\ baseAggregationPipeline' = c.baseAggregationPipeline
  /\ phase' = "live"
  /\ UNCHANGED <<collection, failing, args, tasks, queries, runs, returned, observed, pages,
                 twin>>

\* new Pagination(Model, {baseAggregationPipeline, ...}) with the array the
\* first instance was built from: this.aggregationPipeline of both instances
\* and the caller's variable name one array, so the stages pushed are seen
\* through all three
ConstructTwin ==
  /\ phase = "live"
  /\ twin.phase = "new"
  /\ LET c == VariantConstructor(baseAggregationPipeline, twin.args)
     IN  /\ twin' = [twin EXCEPT !.phase = "live", !.this = c.this]
         /\ baseAggregationPipeline' = c.baseAggregationPipeline
         /\ this' = [this EXCEPT !.aggregationPipeline = c.baseAggregationPipeline]
  /\ UNCHANGED <<collection, failing, args, phase, tasks, queries, runs, returned, observed,
                 pages>>

VariantCallGetEdges ==
  /\ phase = "live"
  /\ Commit(VariantGetEdges(Engine))
  /\ Hand("edge")
  /\ UNCHANGED <<Environment, baseAggregationPipeline>>

VariantCallHasNextPage ==
  /\ phase = "live"
  /\ Commit(VariantHasNextPage(Engine))
  /\ Hand("nextPage")
  /\ UNCHANGED <<Environment, baseAggregationPipeline>>

VariantModelReply ==
  /\ tasks.model.pc = "aggregate"
  /\ Continue(VariantFindCursorModelReply(Engine, collection, failing))

VariantEdgeModelResume ==
  /\ tasks.edge.pc = "awaitModel"
  /\ Settled(this.promises.model)
  /\ Continue(VariantAwaitModelResume(Engine, "edge"))

VariantEdgeAddResume ==
  /\ tasks.edge.pc = "awaitAdd"
  /\ Continue(awaitAddResume(Engine, "edge"))

VariantEdgeReply ==
  /\ tasks.edge.pc = "aggregate"
  /\ Continue(VariantGetEdgesReply(Engine, collection, failing))

VariantNextPageReply ==
  /\ tasks.nextPage.pc = "aggregate"
  /\ Continue(VariantHasNextPageReply(Engine, collection, failing))

VariantNext ==
  \/ VariantConstruct
  \/ ConstructTwin
  \/ VariantCallGetEdges
  \/ VariantCallHasNextPage
  \/ VariantModelReply
  \/ VariantEdgeModelResume
  \/ VariantEdgeAddResume
  \/ VariantEdgeReply
  \/ VariantNextPageReply

SpecVariant == VariantInit /\ [][VariantNext]_vars

(***************************************************************************)
(* What the claims speak of.                                               *)
(***************************************************************************)
NativeMode == ~TruthyStr(args.search)
SearchMode == TruthyStr(args.search)

\* execute(basePipeline + Sort): the records the instance's base pipeline yields
BaseDocs == Aggregate(this.aggregationPipeline, collection)
BaseIds == IdsOf(BaseDocs)

\* pagination.first when given, 25 otherwise
PageSize == IF Truthy(args.pagination.first) THEN args.pagination.first ELSE DefaultPerPage

\* position of the record with this id in a sequence of ids, 0 when not in it
Position(ids, id) ==
  IF \E i \in 1..Len(ids) : ids[i] = id
  THEN CHOOSE i \in 1..Len(ids) : ids[i] = id ELSE 0

EdgeIds(page) == [i \in 1..Len(page.edge.value) |-> page.edge.value[i].cursor]

RECURSIVE ConcatIds(_)
ConcatIds(ps) == IF ps = <<>> THEN <<>> ELSE EdgeIds(Head(ps)) \o ConcatIds(Tail(ps))

AllFetched == \A k \in 1..Len(pages) : pages[k].edge.state = "fulfilled"

(***************************************************************************)
(* C1.  Native mode: the pages fetched by following end cursors from a     *)
(* first page without after, concatenated, are the first n*p records of    *)
(* the base pipeline's sorted result (all of them if there are fewer): no  *)
(* record twice, none skipped.                                             *)
(***************************************************************************)
C1_PagesAreAPrefix ==
  (NativeMode /\ pages # <<>> /\ pages[1].after = Nil /\ AllFetched)
    => ConcatIds(pages) = Take(BaseIds, Len(pages) * PageSize)

(***************************************************************************)
(* C2.  Native mode: on a non-empty page hasNextPage() resolves to true    *)
(* exactly when some record of the base pipeline's sorted result lies      *)
(* after the page's last record.                                           *)
(***************************************************************************)
C2_HasNextIffRecordsFollow ==
  \A k \in 1..Len(pages) :
    (NativeMode /\ pages[k].edge.state = "fulfilled" /\ pages[k].edge.value # <<>>)
      => /\ pages[k].nextPage.state = "fulfilled"
         /\ pages[k].nextPage.value
              = (Position(BaseIds, Last(EdgeIds(pages[k]))) < Len(BaseIds))

(***************************************************************************)
(* C3.  On one instance, under any interleaving of calls, each closure is  *)
(* started at most once and the store receives at most one query from      *)
(* each; every call of an operation is handed the same promise and sees    *)
(* the same outcome.                                                       *)
(***************************************************************************)
C3_ComputedAtMostOnce ==
  /\ \A t \in TaskNames : runs[t] <= 1 /\ queries[t] <= 1
  /\ \A op \in Operations :
       Cardinality(returned[op]) <= 1 /\ Cardinality(observed[op]) <= 1

\* the four operations have been called before any reply of the store
C3_Witness ==
  \A op \in Operations : returned[op] = {1} /\ this.promises[op].state = "pending"

\* slot `to`, once settled, carries the rejection of slot `from`
SameFailure(from, to) ==
  (this.promises[from].state = "rejected" /\ Settled(this.promises[to]))
    => /\ this.promises[to].state = "rejected"
       /\ this.promises[to].reason = this.promises[from].reason

(***************************************************************************)
(* C4.  A rejected slot stays rejected with the same error and issues no   *)
(* further store query; callers only ever see that rejection; a failure of *)
(* getEdges() is the failure of getEndCursor() and of hasNextPage().       *)
(***************************************************************************)
C4_FailureIsKept ==
  /\ [][\A t \in TaskNames :
          this.promises[t].state = "rejected"
            => this'.promises[t] = this.promises[t] /\ queries'[t] = queries[t]]_vars
  /\ [](/\ SameFailure("edge", "cursor")
        /\ SameFailure("edge", "nextPage")
        /\ \A op \in Operations :
             this.promises[op].state = "rejected"
               => observed[op] \subseteq {Outcome(this.promises[op])})

\* the page query failed, and callers have seen all three operations fail
C4_Witness ==
  /\ this.promises.edge.state = "rejected"
  /\ this.promises.edge.reason = "StoreError"
  /\ \A op \in {"edge", "cursor", "nextPage"} :
       observed[op] # {} /\ this.promises[op].state = "rejected"

\* the documents the base pipeline yields: those that pass every filter
Passing ==
  {i \in 1..Len(collection) :
     \A k \in 1..Len(args.filters) :
       collection[i][args.filters[k].field] \in args.filters[k].value}

\* the documents getTotalCount() is to count
Counted ==
  {i \in Passing : SearchMode => MatchesSearch(collection[i], args.search)}

\* pagination.after names no document the base pipeline yields
StaleAfter ==
  /\ phase = "live"
  /\ Truthy(args.pagination.after)
  /\ \A i \in Passing : collection[i]._id # args.pagination.after

IsCursorNotFound(p) == p.state = "rejected" /\ p.reason = "CursorNotFound"

(***************************************************************************)
(* C5.  Native mode, pagination.after identifying no record of the base    *)
(* pipeline's result: which operations fail with CursorNotFound.           *)
(***************************************************************************)
\* C5 as claimed: CursorNotFound is the outcome of getEdges(), of
\* getTotalCount() and of hasNextPage()
C5_CursorNotFoundEverywhere ==
  (NativeMode /\ StaleAfter /\ failing = {})
    => \A op \in {"edge", "count", "nextPage"} :
         Settled(this.promises[op]) => IsCursorNotFound(this.promises[op])

\* C5 as amended: CursorNotFound is the outcome of getEdges(), of
\* getEndCursor() and of hasNextPage(); getTotalCount() does not resolve the
\* cursor and resolves to the count
C5_CursorNotFoundFromPaging ==
  (NativeMode /\ StaleAfter /\ failing = {})
    => /\ \A op \in {"edge", "cursor", "nextPage"} :
            Settled(this.promises[op]) => IsCursorNotFound(this.promises[op])
       /\ Settled(this.promises.count)
            => /\ this.promises.count.state = "fulfilled"
               /\ this.promises.count.value = Cardinality(Counted)

\* a stale after: edges and next-page probe have failed, the count has resolved
C5_Witness ==
  /\ NativeMode /\ StaleAfter /\ failing = {}
  /\ IsCursorNotFound(this.promises.edge)
  /\ IsCursorNotFound(this.promises.nextPage)
  /\ this.promises.count.state = "fulfilled"
  /\ this.promises.count.value > 0

(***************************************************************************)
(* C6.  getEdges() returns at most perPage edges, perPage being            *)
(* pagination.first when given and 25 otherwise, in both modes.            *)
(***************************************************************************)
C6_AtMostPerPageEdges ==
  \A k \in 1..Len(pages) :
    pages[k].edge.state = "fulfilled" => Len(pages[k].edge.value) <= PageSize

(***************************************************************************)
(* C7.  getTotalCount() resolves to the number of records of the base      *)
(* pipeline in native mode, to the number of those matching the pattern in *)
(* search mode, whatever pagination.first and pagination.after are; 0 when *)
(* there is none.                                                          *)
(***************************************************************************)
C7_TotalCount ==
  /\ this.promises.count.state = "fulfilled"
       => this.promises.count.value = Cardinality(Counted)
  /\ this.promises.count.state = "rejected" => "count" \in failing

\* a count over filtered documents, on an instance with first and after set
C7_Witness ==
  /\ this.promises.count.state = "fulfilled"
  /\ this.promises.count.value > 1
  /\ this.promises.count.value < Len(collection)
  /\ Truthy(args.pagination.after)
  /\ Truthy(args.pagination.first)

(***************************************************************************)
(* C8.  Search mode, pagination.after equal to the id of no record the     *)
(* base pipeline returns: getEdges() resolves to the empty sequence and    *)
(* getTotalCount() to the number of matching records, as without after.    *)
(***************************************************************************)
C8_StaleAfterInSearchMode ==
  \A k \in 1..Len(pages) :
    (SearchMode /\ Truthy(pages[k].after) /\ Position(BaseIds, pages[k].after) = 0)
      => /\ pages[k].edge.state = "fulfilled"
         /\ pages[k].edge.value = <<>>
         /\ pages[k].count.state = "fulfilled"
         /\ pages[k].count.value = Cardinality(Counted)

\* a stale after over a collection with several matching records
C8_Witness ==
  /\ pages # <<>>
  /\ SearchMode
  /\ Truthy(pages[1].after)
  /\ Position(BaseIds, pages[1].after) = 0
  /\ pages[1].count.value > 1

PaginationOps == {"$limit", "$count", "$matchId", "$matchOr"}

(***************************************************************************)
(* C9.  Neither the construction nor any operation changes the caller's    *)
(* baseAggregationPipeline; once constructed, the instance's pipeline is   *)
(* the base stages, one match per filter and the sort, and stays so: the   *)
(* boundary, limit, count and cursor-id stages go to copies.               *)
(***************************************************************************)
C9_BasePipelineIsKept ==
  /\ [][/\ baseAggregationPipeline' = baseAggregationPipeline
        /\ phase = "live" => this'.aggregationPipeline = this.aggregationPipeline]_vars
  /\ [](phase = "live" =>
          /\ Len(this.aggregationPipeline)
               = Len(baseAggregationPipeline) + Len(args.filters)
                 + (IF TruthyStr(args.sort.field) /\ Truthy(args.sort.order) THEN 1 ELSE 0)
          /\ SubSeq(this.aggregationPipeline, 1, Len(baseAggregationPipeline))
               = baseAggregationPipeline
          /\ \A i \in 1..Len(this.aggregationPipeline) :
               this.aggregationPipeline[i].op \notin PaginationOps)

\* all operations have run on an instance with base stages, a filter and a sort
C9_Witness ==
  /\ baseAggregationPipeline # <<>>
  /\ args.filters # <<>>
  /\ TruthyStr(args.sort.field)
  /\ Truthy(args.pagination.after)
  /\ this.promises.count.state = "fulfilled"
  /\ this.promises.nextPage.state = "fulfilled"

InTurn == AwaitAll(NewEngine(baseAggregationPipeline, args), collection, failing)

(***************************************************************************)
(* C10.  Against an unchanging store, what each operation resolves to does *)
(* not depend on the order or interleaving of the first calls: it is what  *)
(* a caller gets who invokes the four operations in turn and awaits them.  *)
(***************************************************************************)
C10_OrderIndependent ==
  (\E op \in Operations : Settled(this.promises[op]))
    => \A op \in Operations :
         Settled(this.promises[op])
           => Outcome(this.promises[op]) = Outcome(InTurn.this.promises[op])

\* hasNextPage() has resolved on an instance whose getEdges() was never called
C10_Witness ==
  /\ this.promises.nextPage.state = "fulfilled"
  /\ returned.edge = {}
  /\ returned.cursor = {}
  /\ returned.nextPage = {1}

\* the ids occur in `ids` in this order, each once
InOrderOf(sub, ids) ==
  /\ \A i \in 1..Len(sub) : Position(ids, sub[i]) > 0
  /\ \A i, j \in 1..Len(sub) : i < j => Position(ids, sub[i]) < Position(ids, sub[j])

(***************************************************************************)
(* C11.  getEndCursor() resolves to null when getEdges() is empty and      *)
(* otherwise to the cursor of the last edge; every edge's cursor is the id *)
(* of its node, and the edges keep the order in which the store returned   *)
(* the records.                                                            *)
(***************************************************************************)
C11_EndCursorIsLastEdge ==
  \A k \in 1..Len(pages) :
    pages[k].edge.state = "fulfilled"
      => /\ pages[k].cursor.state = "fulfilled"
         /\ pages[k].cursor.value
              = (IF pages[k].edge.value = <<>> THEN Nil
                 ELSE Last(pages[k].edge.value).cursor)
         /\ \A i \in 1..Len(pages[k].edge.value) :
              pages[k].edge.value[i].cursor = pages[k].edge.value[i].node._id
         /\ InOrderOf(EdgeIds(pages[k]), BaseIds)

\* a page of two edges whose end cursor is the second, then an empty page
C11_Witness ==
  /\ Len(pages) > 1
  /\ Len(pages[1].edge.value) = 2
  /\ pages[1].cursor.value = pages[1].edge.value[2].cursor
  /\ pages[1].cursor.value # pages[1].edge.value[1].cursor
  /\ Last(pages).edge.state = "fulfilled"
  /\ Last(pages).edge.value = <<>>
  /\ Last(pages).cursor.value = Nil

Min(a, b) == IF a < b THEN a ELSE b

\* native mode, no sort field, and the store holds ids 1..N in ascending order
MonotonicIds ==
  /\ NativeMode
  /\ ~TruthyStr(args.sort.field)
  /\ args.filters = <<>>
  /\ IdsOf(collection) = [i \in 1..Len(collection) |-> i]

(***************************************************************************)
(* C12.  Native mode, no sort field, N records with ids 1..N returned in   *)
(* ascending id order, page size p: the k-th page reached from a first     *)
(* page without after by following end cursors holds the ids               *)
(* (k-1)*p+1 .. min(k*p, N), its end cursor is min(k*p, N), and            *)
(* hasNextPage() on it is true exactly when k*p < N.                       *)
(***************************************************************************)
C12_MonotonicIdsScenario ==
  (MonotonicIds /\ pages # <<>> /\ pages[1].after = Nil)
    => \A k \in 1..Len(pages) :
         (k - 1) * PageSize < Len(collection)
           => /\ pages[k].edge.state = "fulfilled"
              /\ EdgeIds(pages[k])
                   = [i \in 1..(Min(k * PageSize, Len(collection)) - (k - 1) * PageSize)
                        |-> (k - 1) * PageSize + i]
              /\ pages[k].cursor.state = "fulfilled"
              /\ pages[k].cursor.value = Min(k * PageSize, Len(collection))
              /\ pages[k].nextPage.state = "fulfilled"
              /\ pages[k].nextPage.value = (k * PageSize < Len(collection))

\* three pages of one record each over three records: true, true, false
C12_Witness ==
  /\ MonotonicIds
  /\ Len(collection) = 3
  /\ PageSize = 1
  /\ Len(pages) >= 3
  /\ pages[1].after = Nil
  /\ EdgeIds(pages[3]) = <<3>>
  /\ pages[1].nextPage.value = TRUE
  /\ pages[2].nextPage.value = TRUE
  /\ pages[3].nextPage.value = FALSE

\* the record of the store with this id
Record(id) == collection[CHOOSE i \in 1..Len(collection) : collection[i]._id = id]

\* the $match stage aggregationAddPagination builds for boundary record b
BoundaryStage(b) == Head(PaginationStages(b._id, b, this.sort, PageSize))
Admits(stage, r) == ApplyStage(stage, <<r>>) # <<>>

\* the tie-break policy: strictly past b on the sort key, or tied on it with
\* a greater id; by id alone when there is no sort field
PastBoundary(r, b) ==
  IF TruthyStr(this.sort.field) /\ Truthy(this.sort.order)
  THEN \/ (this.sort.order = 1 /\ r[this.sort.field] > b[this.sort.field])
       \/ (this.sort.order # 1 /\ r[this.sort.field] < b[this.sort.field])
       \/ (r[this.sort.field] = b[this.sort.field] /\ r._id > b._id)
  ELSE r._id > b._id

(***************************************************************************)
(* C13.  The after-boundary stage built for boundary record b and sort     *)
(* field f admits a record r if and only if r.f is strictly past b.f in    *)
(* the sort direction, or r.f equals b.f and r.id is greater than b.id;    *)
(* with no sort field, if and only if r.id is greater than the after id.   *)
(***************************************************************************)
C13_BoundaryIsTieBreak ==
  \A k \in 1..Len(pages) :
    (NativeMode /\ Truthy(pages[k].after) /\ pages[k].edge.state = "fulfilled")
      => \A i \in 1..Len(collection) :
           Admits(BoundaryStage(Record(pages[k].after)), collection[i])
             <=> PastBoundary(collection[i], Record(pages[k].after))

\* the records after the one whose id is `after`; all of them when after is absent
DropThrough(docs, after) ==
  IF ~Truthy(after) THEN docs
  ELSE IF Position(IdsOf(docs), after) = 0 THEN <<>>
  ELSE SubSeq(docs, Position(IdsOf(docs), after) + 1, Len(docs))

\* the pattern-matching records among docs, in their order
Matching(docs) == SelectSeq(docs, LAMBDA d : MatchesSearch(d, args.search))

(***************************************************************************)
(* C14.  Search mode with pagination.first = p: getEdges() is the base     *)
(* pipeline's records in store order, without those up to and including    *)
(* the record whose id is pagination.after, restricted to the records that *)
(* match the pattern, and cut to the first p of them.                      *)
(***************************************************************************)
C14_SearchPageIsReference ==
  \A k \in 1..Len(pages) :
    (SearchMode /\ Truthy(args.pagination.first))
      => /\ pages[k].edge.state = "fulfilled"
         /\ pages[k].edge.value
              = Edges(Take(Matching(DropThrough(BaseDocs, pages[k].after)),
                           args.pagination.first))

\* pages of one record over Ann, bob, Ann: the first page leaves the second
\* match out, the second page passes over the boundary and the non-matching record
C14_Witness ==
  /\ SearchMode
  /\ args.pagination.first = 1
  /\ Len(BaseDocs) = 3
  /\ Len(Matching(BaseDocs)) = 2
  /\ Len(pages) >= 2
  /\ pages[1].after = Nil
  /\ EdgeIds(pages[1]) = <<BaseIds[1]>>
  /\ EdgeIds(pages[2]) = <<BaseIds[3]>>

(***************************************************************************)
(* C15.  Every call findCursorModel(id) resolves to the record whose id is *)
(* the id passed to that call, also when an earlier call on the instance   *)
(* resolved another id: a closure that awaits findCursorModel(id) in       *)
(* aggregationAddPagination, getEdges() with pagination.after or           *)
(* hasNextPage() with the end cursor, is given the record with that id.    *)
(***************************************************************************)
C15_CursorModelIsTheIdPassed ==
  \A t \in {"edge", "nextPage"} :
    (tasks[t].pc = "awaitModel" /\ this.promises.model.state = "fulfilled")
      => this.promises.model.value._id = tasks[t].after

(***************************************************************************)
(* C16.  On an instance whose getEdges() resolves to an empty page,        *)
(* hasNextPage() resolves to false; it does not fail.                      *)
(***************************************************************************)
C16_EmptyPageHasNoNextPage ==
  \A k \in 1..Len(pages) :
    (pages[k].edge.state = "fulfilled" /\ pages[k].edge.value = <<>>)
      => /\ pages[k].nextPage.state = "fulfilled"
         /\ pages[k].nextPage.value = FALSE

\* getEdges() of an engine built with the same arguments and this after
EdgesAfter(after) ==
  AwaitAll(NewEngine(baseAggregationPipeline, [args EXCEPT !.pagination.after = after]),
           collection, failing).this.promises.edge

(***************************************************************************)
(* C17.  Search mode, non-empty page: hasNextPage() resolves to true if    *)
(* and only if a search-mode engine with the same base pipeline, pattern   *)
(* and page size and with after = the page's end cursor returns a          *)
(* non-empty getEdges().                                                   *)
(***************************************************************************)
C17_SearchHasNextAgreesWithNextPage ==
  \A k \in 1..Len(pages) :
    (SearchMode /\ pages[k].edge.state = "fulfilled" /\ pages[k].edge.value # <<>>)
      => /\ pages[k].nextPage.state = "fulfilled"
         /\ pages[k].nextPage.value = (EdgesAfter(pages[k].cursor.value).value # <<>>)

\* the caller has followed the end cursors from a first page without after
\* and has reached an empty page
PagedToTheEnd ==
  /\ pages # <<>>
  /\ pages[1].after = Nil
  /\ AllFetched
  /\ Last(pages).edge.value = <<>>

(***************************************************************************)
(* C18.  Search mode, fixed page size, a store that returns the records in *)
(* the same order on every call: following end cursors from a first page   *)
(* without after until an empty page is reached visits every               *)
(* pattern-matching record exactly once, in store order, and the number of *)
(* edges over all pages is getTotalCount().                                *)
(***************************************************************************)
C18_SearchPagesCoverMatches ==
  (SearchMode /\ PagedToTheEnd)
    => /\ ConcatIds(pages) = IdsOf(Matching(BaseDocs))
       /\ \A k \in 1..Len(pages) :
            /\ pages[k].count.state = "fulfilled"
            /\ pages[k].count.value = Len(ConcatIds(pages))

\* two pages of one matching record each around a non-matching one, then the empty page
C18_Witness ==
  /\ SearchMode /\ PagedToTheEnd
  /\ Len(pages) = 3
  /\ Len(BaseDocs) = 3
  /\ ~MatchesSearch(BaseDocs[2], args.search)
  /\ ConcatIds(pages) = <<BaseIds[1], BaseIds[3]>>
  /\ pages[1].count.value = 2

(***************************************************************************)
(* C19.  Variant src/unnamed/part_000, one instance: in every interleaving *)
(* of hasNextPage() and getEdges(), this.perPage has been set to           *)
(* pagination.first (or 25) when hasNextPage() compares the count with it, *)
(* so hasNextPage() resolves to the same value, count > perPage, in every  *)
(* interleaving.                                                           *)
(***************************************************************************)
C19_PerPageSetBeforeCompare ==
  twin.phase = "new"
    => /\ tasks.nextPage.pc = "aggregate" => this.perPage = PageSize
       /\ this.promises.nextPage.state = "fulfilled"
            => this.promises.nextPage.value = (Len(BaseDocs) > PageSize)

\* the filter and sort stages of a pipeline
Added(pipeline) == SelectSeq(pipeline, LAMBDA a : a.op \in {"$matchEq", "$sort"})

\* the stages the constructor adds for these arguments
OwnStages(params) == VariantConstructor(<<>>, params).this.aggregationPipeline

(***************************************************************************)
(* C20.  Variant src/unnamed/part_000, two instances constructed one after *)
(* the other from the same baseAggregationPipeline array: the filter and   *)
(* sort stages of each instance's pipeline, and of every query the first   *)
(* issues, are its own; constructing the second leaves the first's         *)
(* pipeline as it was.                                                     *)
(***************************************************************************)
C20_InstancesKeepOwnStages ==
  /\ phase = "live" => Added(this.aggregationPipeline) = OwnStages(args)
  /\ twin.phase = "live" => Added(twin.this.aggregationPipeline) = OwnStages(twin.args)
  /\ \A t \in TaskNames :
       tasks[t].pc = "aggregate" => Added(tasks[t].pipeline) = OwnStages(args)

====
